---- MODULE Spec2Model ----
(***************************************************************************)
(* Model of forgematica_to_sheets.py: header normalisation, fuzzy column   *)
(* matching, row aggregation and the spreadsheet formulas it emits.        *)
(*                                                                         *)
(* A Python str is a sequence of one-character strings.  A code point      *)
(* outside ASCII is written "U+00C9" (E acute) or "U+00E9" (e acute).      *)
(***************************************************************************)
EXTENDS Integers, Sequences, FiniteSets, TLC

VARIABLES
    pc,          \* which operation has run on the current input
    name,        \* normalize_header: the argument
    normed,      \* normalize_header(name)
    renormed,    \* normalize_header(normalize_header(name))
    colnames,    \* fuzzy_find: the header list
    candidates,  \* fuzzy_find: the keyword list
    found,       \* fuzzy_find's return value (None when nothing matches)
    df_raw,      \* main: the parsed table, [columns, rows]
    mapping,     \* main: detect_columns(df_raw)
    df_grouped,  \* main: the aggregated table, [columns, rows]
    raised,      \* main: the exception that left it, or None
    sheets,      \* generate_workbook: the cells of both sheets
    edits,       \* how many cells the spreadsheet user has typed into since
    default_stack_size   \* generate_workbook: the --default-stack-size argument

vars == <<pc, name, normed, renormed, colnames, candidates, found,
          df_raw, mapping, df_grouped, raised, sheets, edits, default_stack_size>>

\* Python's None, as a sequence no str equals (every element of a str is one character).
None == <<"None">>

----------------------------------------------------------------------------
(* Characters *)

LowerLetters ==
    {"a","b","c","d","e","f","g","h","i","j","k","l","m",
     "n","o","p","q","r","s","t","u","v","w","x","y","z"}

UpperLetters ==
    {"A","B","C","D","E","F","G","H","I","J","K","L","M",
     "N","O","P","Q","R","S","T","U","V","W","X","Y","Z"}

DigitChars == {"0","1","2","3","4","5","6","7","8","9"}

Whitespace == {" ", "\t"}

\* The characters of the model in code point order.
CodePoints ==
    <<"\t"," ","+","-",".","/",
      "0","1","2","3","4","5","6","7","8","9",
      "A","B","C","D","E","F","G","H","I","J","K","L","M",
      "N","O","P","Q","R","S","T","U","V","W","X","Y","Z",
      "_",
      "a","b","c","d","e","f","g","h","i","j","k","l","m",
      "n","o","p","q","r","s","t","u","v","w","x","y","z",
      "U+00C9","U+00E9">>

OrdOf == [c \in {CodePoints[i] : i \in 1..Len(CodePoints)} |->
            CHOOSE i \in 1..Len(CodePoints) : CodePoints[i] = c]

Ord(c) == OrdOf[c]

\* str.lower() on one character.
LowerChar(c) ==
    IF c \in UpperLetters THEN CodePoints[Ord(c) + 27]
    ELSE IF c = "U+00C9" THEN "U+00E9"
    ELSE c

\* \w of Python's re on a str: letters of any script, digits, underscore.
WordChars ==
    LowerLetters \cup UpperLetters \cup DigitChars \cup {"_", "U+00C9", "U+00E9"}

IsWordChar(c) == c \in WordChars

\* The class [a-z0-9].
Az09 == LowerLetters \cup DigitChars

IsAz09(c) == c \in Az09

----------------------------------------------------------------------------
(* str helpers *)

RECURSIVE LStrip(_)
LStrip(s) ==
    IF s # <<>> /\ Head(s) \in Whitespace THEN LStrip(Tail(s)) ELSE s

RECURSIVE RStrip(_)
RStrip(s) ==
    IF s # <<>> /\ s[Len(s)] \in Whitespace
    THEN RStrip(SubSeq(s, 1, Len(s) - 1))
    ELSE s

\* str.strip()
Strip(s) == RStrip(LStrip(s))

\* str.lower()
Lower(s) == [i \in 1..Len(s) |-> LowerChar(s[i])]

RECURSIVE SkipRun(_)
SkipRun(s) ==
    IF s # <<>> /\ ~IsAz09(Head(s)) THEN SkipRun(Tail(s)) ELSE s

\* re.sub(r"[^a-z0-9]+", "_", s)
RECURSIVE ReSubRuns(_)
ReSubRuns(s) ==
    IF s = <<>> THEN <<>>
    ELSE IF IsAz09(Head(s)) THEN <<Head(s)>> \o ReSubRuns(Tail(s))
    ELSE <<"_">> \o ReSubRuns(SkipRun(Tail(s)))

\* Mutant: every offending character replaced on its own (the "+" dropped).
normalize_header_NoPlus(s) ==
    LET t == Lower(Strip(s))
    IN  [i \in 1..Len(t) |-> IF IsAz09(t[i]) THEN t[i] ELSE "_"]

normalize_header(s) == ReSubRuns(Lower(Strip(s)))

\* sub in s (str.__contains__)
\* Does sub occur in s at offset i?
OccursAt(sub, s, i) ==
    \A k \in 1..Len(sub) : s[i + k] = sub[k]

Contains(sub, s) ==
    \E i \in 0..(Len(s) - Len(sub)) : OccursAt(sub, s, i)

----------------------------------------------------------------------------
(* fuzzy_find and detect_columns *)

\* Is there a \b at offset i of s (between s[i] and s[i+1])?
IsBoundary(s, i) ==
    LET before == i >= 1 /\ IsWordChar(s[i])
        after  == i < Len(s) /\ IsWordChar(s[i + 1])
    IN  before # after

\* re.search(rf"\b{re.escape(cand)}\b", s)
ReSearchWord(cand, s) ==
    \E i \in 0..(Len(s) - Len(cand)) :
        /\ OccursAt(cand, s, i)
        /\ IsBoundary(s, i)
        /\ IsBoundary(s, i + Len(cand))

Min(S) == CHOOSE x \in S : \A y \in S : x <= y

\* normalize_header(orig) for every orig of colnames.
NormalizedHeaders(cols) == [h \in 1..Len(cols) |-> normalize_header(cols[h])] \o <<>>

\* The first pass: the headers some candidate matches between word boundaries.
WordHits(normeds, cands) ==
    {h \in 1..Len(normeds) :
        \E c \in 1..Len(cands) : ReSearchWord(cands[c], normeds[h])}

\* The second pass: the headers some candidate is a substring of.
SubstringHits(normeds, cands) ==
    {h \in 1..Len(normeds) :
        \E c \in 1..Len(cands) : Contains(cands[c], normeds[h])}

fuzzy_find(cols, cands) ==
    LET normeds == NormalizedHeaders(cols)
        pass1 == WordHits(normeds, cands)
        pass2 == SubstringHits(normeds, cands)
    IN  IF pass1 # {} THEN cols[Min(pass1)]
        ELSE IF pass2 # {} THEN cols[Min(pass2)]
        ELSE None

NameCandidates ==
    <<<<"n","a","m","e">>,
      <<"i","t","e","m">>,
      <<"m","a","t","e","r","i","a","l">>,
      <<"m","a","t","e","r","i","a","l","s">>,
      <<"b","l","o","c","k">>,
      <<"i","d">>>>

TotalCandidates ==
    <<<<"t","o","t","a","l">>,
      <<"r","e","q","u","i","r","e","d">>,
      <<"q","t","y","_","t","o","t","a","l">>,
      <<"q","u","a","n","t","i","t","y","_","t","o","t","a","l">>,
      <<"a","m","o","u","n","t">>,
      <<"c","o","u","n","t">>>>

MissingCandidates ==
    <<<<"m","i","s","s","i","n","g">>,
      <<"n","e","e","d","e","d">>,
      <<"t","o","_","g","e","t">>,
      <<"t","o","_","o","b","t","a","i","n">>,
      <<"s","h","o","r","t">>,
      <<"l","a","c","k">>>>

AvailableCandidates ==
    <<<<"a","v","a","i","l","a","b","l","e">>,
      <<"h","a","v","e">>,
      <<"s","t","o","c","k">>,
      <<"i","n","_","c","h","e","s","t","s">>,
      <<"p","r","e","s","e","n","t">>>>

detect_columns(cols) ==
    [name      |-> fuzzy_find(cols, NameCandidates),
     total     |-> fuzzy_find(cols, TotalCandidates),
     missing   |-> fuzzy_find(cols, MissingCandidates),
     available |-> fuzzy_find(cols, AvailableCandidates)]

----------------------------------------------------------------------------
(* pandas helpers used by main *)

Range(s) == {s[i] : i \in 1..Len(s)}

IndexOf(s, x) == CHOOSE i \in 1..Len(s) : s[i] = x

\* A blank cell of the parsed table is NaN; it is written as the empty str.
Blank == <<>>

DigitVal(c) == Ord(c) - Ord("0")

RECURSIVE DecVal(_)
DecVal(s) ==
    IF s = <<>> THEN 0
    ELSE 10 * DecVal(SubSeq(s, 1, Len(s) - 1)) + DigitVal(s[Len(s)])

RECURSIVE DigitPrefixLen(_)
DigitPrefixLen(s) ==
    IF s # <<>> /\ Head(s) \in DigitChars THEN 1 + DigitPrefixLen(Tail(s)) ELSE 0

\* pd.to_numeric(text, errors="coerce") on one cell: an optional sign, digits,
\* an optional "." and digits, at least one digit in all and nothing after;
\* anything else, a blank cell included, is NaN.
to_numeric(text) ==
    LET signed == text # <<>> /\ Head(text) \in {"+", "-"}
        body   == IF signed THEN Tail(text) ELSE text
        k      == DigitPrefixLen(body)
        rest   == SubSeq(body, k + 1, Len(body))
        dotted == rest # <<>> /\ Head(rest) = "."
        fracs  == IF dotted THEN Tail(rest) ELSE <<>>
        f      == DigitPrefixLen(fracs)
        ok     == /\ k + f >= 1
                  /\ (IF dotted THEN f = Len(fracs) ELSE rest = <<>>)
    IN  IF ok
        THEN [nan |-> FALSE,
              neg |-> signed /\ Head(text) = "-",
              whole |-> DecVal(SubSeq(body, 1, k)),
              frac |-> fracs]
        ELSE [nan |-> TRUE, neg |-> FALSE, whole |-> 0, frac |-> <<>>]

\* Series.fillna(0) on one value.
fillna0(v) ==
    IF v.nan THEN [nan |-> FALSE, neg |-> FALSE, whole |-> 0, frac |-> <<>>] ELSE v

\* Series.astype(int) on one float: the fraction is cut, towards zero.
astype_int(v) == IF v.neg THEN 0 - v.whole ELSE v.whole

\* Mutant: a value with a fraction is rounded half up instead of cut.
Coerce_Rounding(text) ==
    LET v == fillna0(to_numeric(text))
        up == IF v.frac # <<>> /\ DigitVal(Head(v.frac)) >= 5 THEN 1 ELSE 0
    IN  IF v.neg THEN 0 - (v.whole + up) ELSE v.whole + up

\* pd.to_numeric(col, errors="coerce").fillna(0).astype(int) on one cell.
Coerce(text) == astype_int(fillna0(to_numeric(text)))

\* a < b for two str (code point order).
RECURSIVE StrLess(_, _)
StrLess(a, b) ==
    IF b = <<>> THEN FALSE
    ELSE IF a = <<>> THEN TRUE
    ELSE IF Head(a) # Head(b) THEN Ord(Head(a)) < Ord(Head(b))
    ELSE StrLess(Tail(a), Tail(b))

\* A numeric cell scaled by 1000, to compare the keys of a numeric column.
Scaled(text) ==
    LET v == to_numeric(text)
        d(i) == IF i <= Len(v.frac) THEN DigitVal(v.frac[i]) ELSE 0
        m == v.whole * 1000 + d(1) * 100 + d(2) * 10 + d(3)
    IN  IF v.neg THEN 0 - m ELSE m

\* read_csv gives a column whose non-blank cells are all numbers a numeric
\* dtype; any other column holds str.
IsNumericColumn(keys) == keys # {} /\ \A k \in keys : ~to_numeric(k).nan

\* Key a sorts before key b, in a numeric column and in a column of str.
KeyLess(numeric, a, b) ==
    IF numeric THEN Scaled(a) < Scaled(b) ELSE StrLess(a, b)

\* sorted(keys)
RECURSIVE SortedFrom(_, _)
SortedFrom(numeric, keys) ==
    IF keys = {} THEN <<>>
    ELSE LET m == CHOOSE x \in keys : \A y \in keys \ {x} : KeyLess(numeric, x, y)
         IN  <<m>> \o SortedFrom(numeric, keys \ {m})

SortedSeq(keys) == SortedFrom(IsNumericColumn(keys), keys)

\* The values of s in order of first appearance.
RECURSIVE Unique(_)
Unique(s) ==
    IF s = <<>> THEN <<>>
    ELSE LET front == Unique(SubSeq(s, 1, Len(s) - 1))
         IN  IF s[Len(s)] \in Range(front) THEN front ELSE Append(front, s[Len(s)])

RECURSIVE SumSeq(_)
SumSeq(s) == IF s = <<>> THEN 0 ELSE Head(s) + SumSeq(Tail(s))

\* d[k] = v on a dict kept as <<key, value>> pairs in insertion order.
DictSet(d, k, v) ==
    IF \E i \in 1..Len(d) : d[i][1] = k
    THEN [i \in 1..Len(d) |-> IF d[i][1] = k THEN <<k, v>> ELSE d[i]]
    ELSE Append(d, <<k, v>>)

----------------------------------------------------------------------------
(* main: rename, convert, group *)

NumericRoles == <<"Total", "Missing", "Available">>

\* The header of the synthetic identity column and its constant value.
MaterialsTmp == <<"__Materials__">>
Unknown == <<"U","n","k","n","o","w","n">>

\* mapping[role] and mapping[role] in df_raw.columns
Resolved(m, role, cols) ==
    /\ m[role] # None
    /\ m[role] # <<>>
    /\ m[role] \in Range(cols)

build_rename_map(cols, m) ==
    LET r0 == IF Resolved(m, "name", cols)
              THEN << <<m.name, "Materials">> >>
              ELSE << <<MaterialsTmp, "Materials">> >>
        r1 == IF Resolved(m, "total", cols) THEN DictSet(r0, m.total, "Total") ELSE r0
        r2 == IF Resolved(m, "missing", cols) THEN DictSet(r1, m.missing, "Missing") ELSE r1
    IN  IF Resolved(m, "available", cols) THEN DictSet(r2, m.available, "Available") ELSE r2

\* df_raw[list(rename_map.keys())].rename(columns=rename_map), then the
\* numeric columns converted.
select_and_convert(raw, rmap) ==
    LET RawCell(r, key) ==
            IF key = MaterialsTmp THEN Unknown
            ELSE raw.rows[r][IndexOf(raw.columns, key)]
    IN  [columns |-> [i \in 1..Len(rmap) |-> rmap[i][2]],
         rows |-> [r \in 1..Len(raw.rows) |->
                     [i \in 1..Len(rmap) |->
                        IF rmap[i][2] \in Range(NumericRoles)
                        THEN Coerce(RawCell(r, rmap[i][1]))
                        ELSE RawCell(r, rmap[i][1])]]]

ColumnOf(df, c) == [r \in 1..Len(df.rows) |-> df.rows[r][IndexOf(df.columns, c)]]

\* The roles of the agg dict, in the order main adds them.
AggRoles(df) == SelectSeq(NumericRoles, LAMBDA c : c \in Range(df.columns))

\* The sum of column c over the rows whose Materials is key.
GroupSum(df, key, c) ==
    LET mats == ColumnOf(df, "Materials")
        vals == ColumnOf(df, c)
        pick == SelectSeq([r \in 1..Len(df.rows) |-> r], LAMBDA r : mats[r] = key)
    IN  SumSeq([i \in 1..Len(pick) |-> vals[pick[i]]])

\* Mutant: a later record of a group overwrites the earlier ones.
GroupValue_Last(df, key, c) ==
    LET mats == ColumnOf(df, "Materials")
        vals == ColumnOf(df, c)
        pick == SelectSeq([r \in 1..Len(df.rows) |-> r], LAMBDA r : mats[r] = key)
    IN  vals[pick[Len(pick)]]

GroupValue(df, key, c) == GroupSum(df, key, c)

\* Mutant: groupby(..., sort=False): the groups in order of first appearance.
GroupKeys_Unsorted(df) ==
    SelectSeq(Unique(ColumnOf(df, "Materials")), LAMBDA k : k # Blank)

\* The group keys of df.groupby("Materials"): sort=True orders them, dropna=True
\* leaves out the records whose key is NaN.
GroupKeys(df) == SortedSeq(Range(ColumnOf(df, "Materials")) \ {Blank})

\* Mutant: the records are grouped by the normalised name, and a group is shown
\* under its first-seen spelling.
groupby_agg_Normalized(df) ==
    LET mats == ColumnOf(df, "Materials")
        seen == SelectSeq(Unique(mats), LAMBDA k : k # Blank)
        firsts == SelectSeq(seen, LAMBDA k :
                     \A i \in 1..Len(seen) :
                        normalize_header(seen[i]) = normalize_header(k)
                           => IndexOf(seen, k) <= i)
        keys == SortedSeq(Range(firsts))
        aggs == AggRoles(df)
        Sum(k, c) == SumSeq([i \in 1..Len(seen) |->
                        IF normalize_header(seen[i]) = normalize_header(k)
                        THEN GroupSum(df, seen[i], c) ELSE 0])
    IN  [columns |-> <<"Materials">> \o aggs,
         rows |-> [g \in 1..Len(keys) |->
                     <<keys[g]>> \o [a \in 1..Len(aggs) |-> Sum(keys[g], aggs[a])]]]

\* df.groupby("Materials", as_index=False).agg(agg)
groupby_agg(df) ==
    LET keys == GroupKeys(df)
        aggs == AggRoles(df)
    IN  [columns |-> <<"Materials">> \o aggs,
         rows |-> [g \in 1..Len(keys) |->
                     <<keys[g]>> \o [a \in 1..Len(aggs) |-> GroupValue(df, keys[g], aggs[a])]]]

\* df.drop_duplicates("Materials") and the three numeric columns set to 0.
drop_duplicates_fallback(df) ==
    LET keys == Unique(ColumnOf(df, "Materials"))
    IN  [columns |-> <<"Materials">> \o NumericRoles,
         rows |-> [g \in 1..Len(keys) |-> <<keys[g], 0, 0, 0>>]]

\* The exception main leaves with, or None.
main_raises(df) ==
    IF "Materials" \notin Range(df.columns) THEN <<"KeyError">> ELSE None

main_group(df) ==
    IF AggRoles(df) # <<>> THEN groupby_agg(df) ELSE drop_duplicates_fallback(df)

----------------------------------------------------------------------------
(* Spreadsheet cells and formulas *)

\* A cell is a constant or a formula: an operation and its operands.
Num(n) == [op |-> "NUM", args |-> <<n>>]
Str(t) == [op |-> "STR", args |-> <<t>>]
Ref(c, r) == [op |-> "REF", args |-> <<c, r>>]        \* the cell at column c, row r
Add(a, b) == [op |-> "ADD", args |-> <<a, b>>]        \* a+b
Mul(a, b) == [op |-> "MUL", args |-> <<a, b>>]        \* a*b
Div(a, b) == [op |-> "DIV", args |-> <<a, b>>]        \* a/b
Max(a, b) == [op |-> "MAX", args |-> <<a, b>>]        \* MAX(a, b)
Ceiling(a, f) == [op |-> "CEILING", args |-> <<a, f>>] \* CEILING(a, f)
Mod(a, b) == [op |-> "MOD", args |-> <<a, b>>]        \* MOD(a, b)
IfEq(a, b, x, y) == [op |-> "IF_EQ", args |-> <<a, b, x, y>>]  \* IF(a=b, x, y)
IfError(a, b) == [op |-> "IFERROR", args |-> <<a, b>>]         \* IFERROR(a, b)
VLookup(key) == [op |-> "VLOOKUP", args |-> <<key>>]  \* VLOOKUP(key, REFS!A:B, 2, FALSE)

\* A value of the spreadsheet: an error, or the rational n/d with d > 0.
Val(n, d) == [err |-> FALSE, n |-> n, d |-> d]
Err == [err |-> TRUE, n |-> 0, d |-> 1]

VAdd(a, b) == IF a.err \/ b.err THEN Err ELSE Val(a.n * b.d + b.n * a.d, a.d * b.d)
VMul(a, b) == IF a.err \/ b.err THEN Err ELSE Val(a.n * b.n, a.d * b.d)
VDiv(a, b) ==
    IF a.err \/ b.err THEN Err
    ELSE IF b.n = 0 THEN Err
    ELSE IF b.n > 0 THEN Val(a.n * b.d, a.d * b.n)
    ELSE Val(0 - a.n * b.d, 0 - a.d * b.n)
VMax(a, b) == IF a.err \/ b.err THEN Err ELSE IF a.n * b.d >= b.n * a.d THEN a ELSE b
VFloor(a) == IF a.err THEN Err ELSE Val(a.n \div a.d, 1)
VCeil(a) == IF a.err THEN Err ELSE Val(0 - ((0 - a.n) \div a.d), 1)
VEq(a, b) == a.n * b.d = b.n * a.d

\* The value a spreadsheet gives formula f of sheet sh, with the REFS table refs.
RECURSIVE Eval(_, _, _)
Eval(sh, refs, f) ==
    LET E(i) == Eval(sh, refs, f.args[i])
    IN  CASE f.op = "NUM" -> Val(f.args[1], 1)
          [] f.op = "STR" -> IF f.args[1] = <<>> THEN Val(0, 1) ELSE Err
          [] f.op = "REF" -> Eval(sh, refs, sh.rows[f.args[2] - 1][f.args[1]])
          [] f.op = "ADD" -> VAdd(E(1), E(2))
          [] f.op = "MUL" -> VMul(E(1), E(2))
          [] f.op = "DIV" -> VDiv(E(1), E(2))
          [] f.op = "MAX" -> VMax(E(1), E(2))
          [] f.op = "CEILING" -> VMul(VCeil(VDiv(E(1), E(2))), E(2))
          [] f.op = "MOD" ->
                IF VDiv(E(1), E(2)).err THEN Err
                ELSE VAdd(E(1), VMul(Val(-1, 1), VMul(E(2), VFloor(VDiv(E(1), E(2))))))
          [] f.op = "IF_EQ" ->
                IF E(1).err \/ E(2).err THEN Err
                ELSE IF VEq(E(1), E(2)) THEN E(3) ELSE E(4)
          [] f.op = "IFERROR" -> IF E(1).err THEN E(2) ELSE E(1)
          [] f.op = "VLOOKUP" ->
                LET key == sh.rows[f.args[1].args[2] - 1][f.args[1].args[1]].args[1]
                    hits == {i \in 1..Len(refs) : refs[i][1] = key}
                IN  IF hits = {} THEN Err ELSE Val(refs[Min(hits)][2], 1)

----------------------------------------------------------------------------
(* build_base_table, write_df_with_formulas, generate_workbook *)

DoubleChestStacks == 54

\* df_grouped.get(quantity_col, pd.Series([0]*len(df_grouped))) at row r
QuantityAt(dfg, quantity_col, r) ==
    IF quantity_col \in Range(dfg.columns)
    THEN dfg.rows[r][IndexOf(dfg.columns, quantity_col)]
    ELSE 0

build_base_table(dfg, quantity_col, include_user_cols, dss) ==
    LET derived == <<"# Stacks (ceil)", "# Double Chests",
                     "Stacks after last double", "Units after last stack">>
        blank4 == <<Str(<<>>), Str(<<>>), Str(<<>>), Str(<<>>)>>
    IN  [columns |->
            <<"Materials", "Total (units)">> \o
            (IF include_user_cols
             THEN <<"User units (editable)", "User stacks (editable)",
                    "Computed Total (units)", "Stack Size">>
             ELSE <<"Stack Size">>) \o derived,
         rows |-> [r \in 1..Len(dfg.rows) |->
            <<Str(dfg.rows[r][IndexOf(dfg.columns, "Materials")]),
              Num(QuantityAt(dfg, quantity_col, r))>> \o
            (IF include_user_cols
             THEN <<Num(0), Num(0), Str(<<>>), Str(<<>>)>>
             ELSE <<Num(dss)>>) \o blank4]]

\* headers.get(name): the column number, or 0 for None.
HeaderGet(columns, h) == IF h \in Range(columns) THEN IndexOf(columns, h) ELSE 0

\* The branch of write_df_with_formulas that writes the Computed Total formula.
UsesComputedTotal(columns, is_missing_only) ==
    /\ is_missing_only
    /\ HeaderGet(columns, "Computed Total (units)") # 0
    /\ HeaderGet(columns, "User units (editable)") # 0
    /\ HeaderGet(columns, "User stacks (editable)") # 0
    /\ HeaderGet(columns, "Stack Size") # 0

\* =IFERROR(VLOOKUP(A<r>, REFS!A:B, 2, FALSE), <default_stack_size>)
stack_size_formula(columns, r, dss) ==
    IfError(VLookup(Ref(HeaderGet(columns, "Materials"), r)), Num(dss))

\* Mutant: the sum without the MAX(0, ...) around it.
computed_total_formula_NoClamp(columns, r) ==
    Add(Add(Ref(HeaderGet(columns, "Total (units)"), r),
            Ref(HeaderGet(columns, "User units (editable)"), r)),
        Mul(Ref(HeaderGet(columns, "User stacks (editable)"), r),
            Ref(HeaderGet(columns, "Stack Size"), r)))

\* =MAX(0, <total>+<user units>+<user stacks>*<stack size>)
computed_total_formula(columns, r) ==
    Max(Num(0),
        Add(Add(Ref(HeaderGet(columns, "Total (units)"), r),
                Ref(HeaderGet(columns, "User units (editable)"), r)),
            Mul(Ref(HeaderGet(columns, "User stacks (editable)"), r),
                Ref(HeaderGet(columns, "Stack Size"), r))))

used_total_ref(columns, r, is_missing_only) ==
    IF UsesComputedTotal(columns, is_missing_only)
    THEN Ref(HeaderGet(columns, "Computed Total (units)"), r)
    ELSE Ref(HeaderGet(columns, "Total (units)"), r)

\* =CEILING(<used total>/<stack size>, 1)
stacks_ceil_formula(columns, r, is_missing_only) ==
    Ceiling(Div(used_total_ref(columns, r, is_missing_only),
                Ref(HeaderGet(columns, "Stack Size"), r)),
            Num(1))

\* Mutant: the chests counted from the units instead of the stacks.
double_chests_formula_OfUnits(columns, r, is_missing_only) ==
    IfEq(used_total_ref(columns, r, is_missing_only), Num(0),
         Num(0),
         Ceiling(Div(used_total_ref(columns, r, is_missing_only),
                     Num(DoubleChestStacks)),
                 Num(1)))

\* =IF(<used total>=0, 0, CEILING(<stacks>/54, 1))
double_chests_formula(columns, r, is_missing_only) ==
    IfEq(used_total_ref(columns, r, is_missing_only), Num(0),
         Num(0),
         Ceiling(Div(Ref(HeaderGet(columns, "# Stacks (ceil)"), r),
                     Num(DoubleChestStacks)),
                 Num(1)))

\* =MOD(<stacks>, 54)
stacks_after_formula(columns, r) ==
    Mod(Ref(HeaderGet(columns, "# Stacks (ceil)"), r), Num(DoubleChestStacks))

\* =MOD(<used total>,<stack size>)
units_after_formula(columns, r, is_missing_only) ==
    Mod(used_total_ref(columns, r, is_missing_only),
        Ref(HeaderGet(columns, "Stack Size"), r))

\* The sheet write_df_with_formulas fills from table df_in; data row i is
\* sheet row i + 1.
write_df_with_formulas(df_in, is_missing_only, dss) ==
    LET cols == df_in.columns
        Cell(i, c) ==
            LET r == i + 1
            IN  CASE c = HeaderGet(cols, "Computed Total (units)")
                        /\ UsesComputedTotal(cols, is_missing_only) ->
                        computed_total_formula(cols, r)
                  [] c = HeaderGet(cols, "Stack Size") /\ is_missing_only ->
                        stack_size_formula(cols, r, dss)
                  [] c = HeaderGet(cols, "# Stacks (ceil)") ->
                        stacks_ceil_formula(cols, r, is_missing_only)
                  [] c = HeaderGet(cols, "# Double Chests") ->
                        double_chests_formula(cols, r, is_missing_only)
                  [] c = HeaderGet(cols, "Stacks after last double") ->
                        stacks_after_formula(cols, r)
                  [] c = HeaderGet(cols, "Units after last stack") ->
                        units_after_formula(cols, r, is_missing_only)
                  [] OTHER -> df_in.rows[i][c]
    IN  [columns |-> cols,
         rows |-> [i \in 1..Len(df_in.rows) |-> [c \in 1..Len(cols) |-> Cell(i, c)]]]

\* The rows the REFS sheet starts with.
common ==
    <<<<<<"E","n","d","e","r"," ","P","e","a","r","l">>, 16>>,
      <<<<"E","g","g">>, 16>>,
      <<<<"S","n","o","w","b","a","l","l">>, 16>>,
      <<<<"B","o","a","t">>, 1>>,
      <<<<"A","r","m","o","r"," ","(","a","n","y",")">>, 1>>,
      <<<<"T","o","o","l"," ","(","a","n","y",")">>, 1>>,
      <<<<"B","a","n","n","e","r">>, 16>>>>

generate_workbook(dfg, dss) ==
    [TOTALS_ALL |->
        write_df_with_formulas(build_base_table(dfg, "Total", FALSE, dss), FALSE, dss),
     MISSING_ONLY |->
        write_df_with_formulas(build_base_table(dfg, "Missing", TRUE, dss), TRUE, dss),
     REFS |-> common]

----------------------------------------------------------------------------
(* Bounds and input pools *)

MaxNameLen == 3      \* longest argument of normalize_header
MaxCols == 3         \* longest header list handed to fuzzy_find
MaxRows == 2         \* most records of a table handed to main
MaxCoerceRows == 2   \* most records of a single-column table handed to main
MaxEdits == 2        \* most cells the user types into after the workbook is written

NormAlphabet == {"a", "B", "1", "_", " ", "-", "U+00C9"}

SeqsUpTo(A, n) == UNION {[1..k -> A] : k \in 0..n}

\* Header lists without repeats (pandas renames a repeated header).
InjectiveSeqs(A, n) ==
    {s \in SeqsUpTo(A, n) : \A i, j \in 1..Len(s) : s[i] = s[j] => i = j}

MatchHeaders ==
    {<<"T","o","t","a","l">>,
     <<"C","o","u","n","t">>,
     <<"i","t","e","m","_","t","o","t","a","l">>,
     <<"s","u","b","t","o","t","a","l","s">>,
     <<"I","t","e","m">>,
     <<"M","i","s","s","i","n","g">>}

OakLog == <<"O","a","k"," ","L","o","g">>
oak_log == <<"o","a","k","_","l","o","g">>
Item == <<"I","t","e","m">>
Total == <<"T","o","t","a","l">>
Missing == <<"M","i","s","s","i","n","g">>
Qty == <<"Q","t","y">>
ItemCount == <<"I","t","e","m"," ","C","o","u","n","t">>
MissingCount == <<"M","i","s","s","i","n","g"," ","C","o","u","n","t">>
InChests == <<"I","n"," ","C","h","e","s","t","s">>

\* The header rows of the tables handed to main.
HeaderLists ==
    {<<Item, Total>>, <<Total, Item>>, <<Total, Missing>>,
     <<InChests, Item>>, <<Item, MissingCount>>,
     <<Item>>, <<Qty>>, <<ItemCount>>}

\* The cells of those tables.
CellPool == {OakLog, oak_log, <<"1","0">>, <<"5">>, Blank}

\* The cells of the single-column tables.
CoercePool ==
    {<<"n","/","a">>, Blank, <<"1","2",".","5","a","b","c">>, <<"1","2",".","5">>,
     <<"1","2">>, <<"-","3",".","7">>, <<"-","3">>, <<"0",".","9">>,
     <<".","5">>, <<"-">>, <<".">>, <<"1","2",".","5",".","1">>}

CoerceHeaderLists == {<<Total>>, <<Missing>>, <<InChests>>}

\* table is a table with a header row of headers, at most n records and its
\* cells from pool.
IsTable(table, headers, pool, n) ==
    \E h \in headers : \E k \in 0..n : \E rs \in [1..k -> [1..Len(h) -> pool]] :
        table = [columns |-> h, rows |-> rs]

MatchCandidateLists ==
    {NameCandidates, TotalCandidates, MissingCandidates, AvailableCandidates,
     <<<<"t","o","t","a","l">>>>}

----------------------------------------------------------------------------
(* Specification of normalize_header *)

NormIdle == /\ name = None /\ normed = None /\ renormed = None
MatchIdle == /\ colnames = None /\ candidates = None /\ found = None
MainIdle == /\ df_raw = None /\ mapping = None /\ df_grouped = None /\ raised = None
SheetIdle == /\ sheets = None /\ edits = None /\ default_stack_size = None

InitNorm ==
    /\ pc = "start"
    /\ name \in SeqsUpTo(NormAlphabet, MaxNameLen)
    /\ normed = None
    /\ renormed = None
    /\ MatchIdle /\ MainIdle /\ SheetIdle

Normalize ==
    /\ pc = "start"
    /\ normed' = normalize_header(name)
    /\ pc' = "normalized"
    /\ UNCHANGED <<name, renormed, colnames, candidates, found,
                   df_raw, mapping, df_grouped, raised, sheets, edits, default_stack_size>>

Renormalize ==
    /\ pc = "normalized"
    /\ renormed' = normalize_header(normed)
    /\ pc' = "renormalized"
    /\ UNCHANGED <<name, normed, colnames, candidates, found,
                   df_raw, mapping, df_grouped, raised, sheets, edits, default_stack_size>>

NextNorm == Normalize \/ Renormalize

SpecNorm == InitNorm /\ [][NextNorm]_vars

----------------------------------------------------------------------------
(* Specification of fuzzy_find *)

InitMatch ==
    /\ pc = "start"
    /\ colnames \in InjectiveSeqs(MatchHeaders, MaxCols)
    /\ candidates \in MatchCandidateLists
    /\ found = None
    /\ NormIdle /\ MainIdle /\ SheetIdle

FuzzyFind ==
    /\ pc = "start"
    /\ found' = fuzzy_find(colnames, candidates)
    /\ pc' = "found"
    /\ UNCHANGED <<name, normed, renormed, colnames, candidates,
                   df_raw, mapping, df_grouped, raised, sheets, edits, default_stack_size>>

NextMatch == FuzzyFind

SpecMatch == InitMatch /\ [][NextMatch]_vars

----------------------------------------------------------------------------
(* Specification of main: detect_columns, rename, convert, group *)

Init ==
    /\ pc = "start"
    /\ \/ IsTable(df_raw, HeaderLists, CellPool, MaxRows)
       \/ IsTable(df_raw, CoerceHeaderLists, CoercePool, MaxCoerceRows)
    /\ mapping = None
    /\ df_grouped = None
    /\ raised = None
    /\ NormIdle /\ MatchIdle /\ SheetIdle

Main ==
    /\ pc = "start"
    /\ LET m  == detect_columns(df_raw.columns)
           df == select_and_convert(df_raw, build_rename_map(df_raw.columns, m))
       IN  /\ mapping' = m
           /\ raised' = main_raises(df)
           /\ df_grouped' = IF main_raises(df) # None THEN None ELSE main_group(df)
    /\ pc' = "done"
    /\ UNCHANGED <<name, normed, renormed, colnames, candidates, found,
                   df_raw, sheets, edits, default_stack_size>>

Next == Main

Spec == Init /\ [][Next]_vars

----------------------------------------------------------------------------
(* Specification of generate_workbook and of the user's later edits *)

Stone == <<"S","t","o","n","e">>
Boat == <<"B","o","a","t">>

SheetMaterials == {Stone, Boat}
SheetTotals == {0, 130, 3500}
SheetMissings == {0, 130}
DefaultStackSizes == {64, 16, 0}

\* The column sets main can hand over.
SheetShapes ==
    {<<"Materials", "Total", "Missing", "Available">>,
     <<"Materials", "Total">>,
     <<"Materials", "Missing">>}

SheetRow(shape, mat, tot, mis) ==
    [c \in 1..Len(shape) |->
        CASE shape[c] = "Materials" -> mat
          [] shape[c] = "Total" -> tot
          [] shape[c] = "Missing" -> mis
          [] OTHER -> 0]

\* Aggregated tables: every one-row table of the pools, and one of two rows.
SheetTables ==
    {[columns |-> sh, rows |-> <<SheetRow(sh, m, t, x)>>] :
        sh \in SheetShapes, m \in SheetMaterials, t \in SheetTotals, x \in SheetMissings}
    \cup
    {[columns |-> <<"Materials", "Total", "Missing">>,
      rows |-> <<SheetRow(<<"Materials", "Total", "Missing">>, Boat, 130, 0),
                 SheetRow(<<"Materials", "Total", "Missing">>, Stone, 3500, 130)>>]}

\* What the user types into a quantity cell, and into a stack size.
EditValues == {-5, 0, 2}
StackSizeValues == {0, 1, 64}

InitSheet ==
    /\ pc = "start"
    /\ df_grouped \in SheetTables
    /\ default_stack_size \in DefaultStackSizes
    /\ sheets = None
    /\ edits = 0
    /\ df_raw = None /\ mapping = None /\ raised = None
    /\ NormIdle /\ MatchIdle

GenerateWorkbook ==
    /\ pc = "start"
    /\ sheets' = generate_workbook(df_grouped, default_stack_size)
    /\ pc' = "generated"
    /\ UNCHANGED <<name, normed, renormed, colnames, candidates, found,
                   df_raw, mapping, df_grouped, raised, edits, default_stack_size>>

\* The cells of a sheet that hold a number the user may overtype.
EditableColumns(sheet) ==
    IF sheet = "TOTALS_ALL"
    THEN {"Total (units)", "Stack Size"}
    ELSE {"Total (units)", "User units (editable)", "User stacks (editable)"}

\* The user types v into an editable cell of a data row.
EditCell ==
    /\ pc = "generated"
    /\ edits < MaxEdits
    /\ \E sheet \in {"TOTALS_ALL", "MISSING_ONLY"} :
       \E i \in 1..Len(sheets[sheet].rows) :
       \E col \in EditableColumns(sheet) :
       \E v \in (IF col = "Stack Size" THEN StackSizeValues ELSE EditValues) :
          sheets' = [sheets EXCEPT
                        ![sheet].rows[i][HeaderGet(sheets[sheet].columns, col)] = Num(v)]
    /\ edits' = edits + 1
    /\ UNCHANGED <<pc, name, normed, renormed, colnames, candidates, found,
                   df_raw, mapping, df_grouped, raised, default_stack_size>>

\* The user sets the stack size of a material in the REFS sheet.
EditRefs ==
    /\ pc = "generated"
    /\ edits < MaxEdits
    /\ \E mat \in SheetMaterials : \E v \in StackSizeValues :
          sheets' = [sheets EXCEPT !.REFS = DictSet(sheets.REFS, mat, v)]
    /\ edits' = edits + 1
    /\ UNCHANGED <<pc, name, normed, renormed, colnames, candidates, found,
                   df_raw, mapping, df_grouped, raised, default_stack_size>>

NextSheet == GenerateWorkbook \/ EditCell \/ EditRefs

SpecSheet == InitSheet /\ [][NextSheet]_vars

----------------------------------------------------------------------------
(* Claims about normalize_header *)

Chars(s) == {s[i] : i \in 1..Len(s)}

NoDoubleUnderscore(s) ==
    \A i \in 1..(Len(s) - 1) : ~(s[i] = "_" /\ s[i + 1] = "_")

\* C10: normalize_header returns only lowercase ASCII letters, digits and
\* underscores, never two underscores in a row, maps the empty string to the
\* empty string, and applying it to its own result changes nothing.
C10_NormalizedAndIdempotent ==
    /\ pc \in {"normalized", "renormalized"} =>
          /\ Chars(normed) \subseteq LowerLetters \cup DigitChars \cup {"_"}
          /\ NoDoubleUnderscore(normed)
          /\ (name = <<>> => normed = <<>>)
    /\ pc = "renormalized" => renormed = normed

\* A run of two offending characters was collapsed and an upper-case letter
\* lowered, and the result was normalised again.
C10_Witness ==
    /\ pc = "renormalized"
    /\ name = <<"B", "-", "_">>
    /\ normed = <<"b", "_">>

----------------------------------------------------------------------------
(* Claims about fuzzy_find *)

\* cand occurs in s as a whole word: delimited by underscores or the ends of s.
WholeWord(cand, s) ==
    \E i \in 0..(Len(s) - Len(cand)) :
        /\ SubSeq(s, i + 1, i + Len(cand)) = cand
        /\ (i = 0 \/ s[i] = "_")
        /\ (i + Len(cand) = Len(s) \/ s[i + Len(cand) + 1] = "_")

WholeWordHeaders ==
    {h \in 1..Len(colnames) :
        \E c \in 1..Len(candidates) :
            WholeWord(candidates[c], normalize_header(colnames[h]))}

SubstringHeaders ==
    {h \in 1..Len(colnames) :
        \E c \in 1..Len(candidates) :
            Contains(candidates[c], normalize_header(colnames[h]))}

\* C1: when some header contains a candidate as a whole word (delimited by
\* underscores or the ends of the normalised header), fuzzy_find returns a
\* header with such a whole-word match, never one that matches only as a
\* substring.
C1_WholeWordBeatsSubstring ==
    (pc = "found" /\ WholeWordHeaders # {}) =>
        \E h \in WholeWordHeaders : found = colnames[h]

\* C7: when two or more headers match at the same pass (all by whole word, or
\* all by substring when there is no whole-word match), fuzzy_find returns the
\* one with the lowest column index.
C7_LeftmostWins ==
    pc = "found" =>
        /\ Cardinality(WholeWordHeaders) >= 2 =>
              found = colnames[Min(WholeWordHeaders)]
        /\ (WholeWordHeaders = {} /\ Cardinality(SubstringHeaders) >= 2) =>
              found = colnames[Min(SubstringHeaders)]

----------------------------------------------------------------------------
(* Claims about main *)

Done == pc = "done" /\ raised = None

RoleKeys == <<"total", "missing", "available">>

\* The numeric roles that keep their header: a role bound to a header that a
\* later role is bound to as well loses it (the last assignment wins).
EffectiveRoles ==
    {i \in 1..3 :
        /\ mapping[RoleKeys[i]] # None
        /\ \A j \in (i + 1)..3 : mapping[RoleKeys[j]] # mapping[RoleKeys[i]]}

RawRows == 1..Len(df_raw.rows)
OutRows == 1..Len(df_grouped.rows)

RawCell(r, header) == df_raw.rows[r][IndexOf(df_raw.columns, header)]

\* The identity of raw record r: its Name cell, or "Unknown" without a Name column.
RawId(r) == IF mapping.name = None THEN Unknown ELSE RawCell(r, mapping.name)

OutId(g) == df_grouped.rows[g][1]

OutValue(g, i) == df_grouped.rows[g][IndexOf(df_grouped.columns, NumericRoles[i])]

\* The raw records that carry identity id.
RecordsOf(id) == {r \in RawRows : RawId(r) = id}

\* C2: main never leaves with an exception, whatever the table: a role without
\* a header and a header bound to several roles still give an aggregated table
\* that has a Materials column.
C2_MainNeverRaises ==
    pc = "done" =>
        /\ raised = None
        /\ "Materials" \in Range(df_grouped.columns)

AllDigits(s) == \A i \in 1..Len(s) : s[i] \in DigitChars

Unsigned(text) ==
    IF text # <<>> /\ text[1] \in {"+", "-"} THEN SubSeq(text, 2, Len(text)) ELSE text

Signed(text, n) == IF text # <<>> /\ text[1] = "-" THEN 0 - n ELSE n

\* text is an integer numeral: an optional sign and one or more digits.
IsIntegerNumeral(text) == Unsigned(text) # <<>> /\ AllDigits(Unsigned(text))

\* The positions at which a decimal numeral splits into whole part and fraction.
DecimalSplits(text) ==
    {k \in 0..Len(Unsigned(text)) :
        LET whole == SubSeq(Unsigned(text), 1, k)
            rest  == SubSeq(Unsigned(text), k + 1, Len(Unsigned(text)))
        IN  /\ AllDigits(whole)
            /\ \/ rest = <<>> /\ k >= 1
               \/ /\ rest # <<>>
                  /\ rest[1] = "."
                  /\ AllDigits(SubSeq(rest, 2, Len(rest)))
                  /\ k + Len(rest) - 1 >= 1}

\* What the original claim has a cell contribute: its value when it is an
\* integer numeral, 0 otherwise.
IntegerOrZero(text) ==
    IF IsIntegerNumeral(text) THEN Signed(text, DecVal(Unsigned(text))) ELSE 0

\* What the amended claim has a cell contribute: 0 when it is no number, the
\* whole part (the fraction cut) when it is one.
TruncatedOrZero(text) ==
    IF DecimalSplits(text) = {} THEN 0
    ELSE LET k == CHOOSE k \in DecimalSplits(text) : TRUE
         IN  Signed(text, DecVal(SubSeq(Unsigned(text), 1, k)))

\* What a cell of a numeric role contributes, by each reading.
Contribution(reading, text) ==
    CASE reading = "integer or zero" -> IntegerOrZero(text)
      [] reading = "truncated or zero" -> TruncatedOrZero(text)
      [] reading = "as converted" -> Coerce(text)

\* The sum of the contributions of role i over the raw records in rs.
RoleSum(i, rs, reading) ==
    SumSeq([r \in 1..Len(df_raw.rows) |->
              IF r \in rs
              THEN Contribution(reading, RawCell(r, mapping[RoleKeys[i]]))
              ELSE 0])

\* C3 as stated: a cell of a numeric role that is not an integer numeral
\* ("n/a", blank, "12.5abc", and "12.5" too) counts as 0 in the sums; only
\* integer numerals contribute their value.
C3_NonIntegerIsZero ==
    Done =>
        \A i \in EffectiveRoles : \A g \in OutRows :
            OutValue(g, i) = RoleSum(i, RecordsOf(OutId(g)), "integer or zero")

\* C3 amended: a cell of a numeric role that does not parse as a number counts
\* as 0 in the sums; a cell that parses as a number contributes its whole part,
\* the fraction cut towards zero ("12.5" gives 12, "-3.7" gives -3), so
\* integer numerals contribute their own value.
C3_NonNumberIsZeroFractionCut ==
    Done =>
        \A i \in EffectiveRoles : \A g \in OutRows :
            OutValue(g, i) = RoleSum(i, RecordsOf(OutId(g)), "truncated or zero")

\* "12.5" and "n/a" in one Total column: the group's total is 12.
C3_Witness ==
    /\ Done
    /\ df_raw = [columns |-> <<Total>>,
                 rows |-> << << <<"1","2",".","5">> >>, << <<"n","/","a">> >> >>]
    /\ df_grouped.rows = << <<Unknown, 12>> >>

\* The first raw record that carries identity id.
FirstSeen(id) == Min({r \in RawRows : RawId(r) = id})

InFirstSeenOrder ==
    \A g, h \in OutRows : g < h => FirstSeen(OutId(g)) < FirstSeen(OutId(h))

\* C4 as stated: the aggregated rows are in first-seen order of their
\* identities.
C4_FirstSeenOrder == Done => InFirstSeenOrder

\* C4 amended: when a numeric role is resolved the aggregated rows are in
\* ascending order of identity (code point order of the names; numeric order
\* when every name is a number), whatever the order of the raw records; only
\* when no numeric role is resolved are they in first-seen order.
C4_SortedByIdentity ==
    Done =>
        IF EffectiveRoles # {}
        THEN \A g, h \in OutRows :
                g < h => KeyLess(IsNumericColumn({OutId(x) : x \in OutRows}),
                                 OutId(g), OutId(h))
        ELSE InFirstSeenOrder

\* "oak_log" is read before "Oak Log" and listed after it.
C4_Witness ==
    /\ Done
    /\ df_raw = [columns |-> <<Item, Total>>,
                 rows |-> << <<oak_log, <<"5">> >>, <<OakLog, <<"1","0">> >> >>]
    /\ df_grouped.rows = << <<OakLog, 10>>, <<oak_log, 5>> >>

SameNormalized(a, b) == normalize_header(a) = normalize_header(b)

\* C5 as stated: names that differ only in case or formatting are one
\* identity: the aggregated table has one row for them, under the first-seen
\* spelling, holding the sums over all of them.
C5_MergedByNormalizedName ==
    Done =>
        /\ \A g, h \in OutRows : SameNormalized(OutId(g), OutId(h)) => g = h
        /\ \A r \in RawRows : RawId(r) # Blank =>
              \E g \in OutRows :
                 /\ SameNormalized(OutId(g), RawId(r))
                 /\ \A q \in RawRows :
                       SameNormalized(RawId(q), RawId(r)) => FirstSeen(OutId(g)) <= q
                 /\ \A i \in EffectiveRoles :
                       OutValue(g, i) =
                          RoleSum(i, {q \in RawRows : SameNormalized(RawId(q), OutId(g))},
                                  "as converted")

\* C5 amended: only records whose Name values are equal character for
\* character are merged; names that differ in case or formatting stay separate
\* rows, each under its own spelling with the sums of its own records ("Oak
\* Log" 10 and "oak_log" 5 give two rows, 10 and 5).
C5_MergedByExactName ==
    Done =>
        \A r, q \in RawRows :
            (RawId(r) # Blank /\ RawId(q) # Blank) =>
                \E g, h \in OutRows :
                    /\ OutId(g) = RawId(r)
                    /\ OutId(h) = RawId(q)
                    /\ (g = h) = (RawId(r) = RawId(q))
                    /\ \A i \in EffectiveRoles :
                          OutValue(g, i) = RoleSum(i, RecordsOf(RawId(r)), "as converted")

\* The scenario of the claim: two rows, 10 and 5.
C5_Witness ==
    /\ Done
    /\ df_raw = [columns |-> <<Item, Total>>,
                 rows |-> << <<OakLog, <<"1","0">> >>, <<oak_log, <<"5">> >> >>]
    /\ df_grouped.rows = << <<OakLog, 10>>, <<oak_log, 5>> >>

----------------------------------------------------------------------------
(* Claims about the emitted formulas *)

SheetNames == {"TOTALS_ALL", "MISSING_ONLY"}

\* The value of the cell under header col in data row i of a sheet.
CellValue(sheet, i, col) ==
    Eval(sheets[sheet], sheets.REFS,
         sheets[sheet].rows[i][HeaderGet(sheets[sheet].columns, col)])

IsInt(v) == ~v.err /\ v.n % v.d = 0
IntOf(v) == v.n \div v.d

\* Value v is the integer k.
Is(v, k) == ~v.err /\ v.n = k * v.d

\* The cell the claim calls the effective total of a row.
EffectiveTotal(sheet, i) ==
    IF sheet = "TOTALS_ALL"
    THEN CellValue(sheet, i, "Total (units)")
    ELSE CellValue(sheet, i, "Computed Total (units)")

CeilDiv(a, b) == IF a % b = 0 THEN a \div b ELSE (a \div b) + 1

\* C8: in every row of either sheet, with E the effective total (Total in
\* TOTALS_ALL, Computed Total in MISSING_ONLY) and S > 0 the Stack Size, the
\* derived cells evaluate to ceil(E / S) stacks, 0 double chests when E = 0 and
\* ceil(stacks / 54) otherwise, stacks mod 54 after the last chest and E mod S
\* units after the last stack.
C8_DerivedColumns ==
    pc = "generated" =>
        \A sheet \in SheetNames : \A i \in 1..Len(sheets[sheet].rows) :
            LET E == EffectiveTotal(sheet, i)
                S == CellValue(sheet, i, "Stack Size")
                stacks == CeilDiv(IntOf(E), IntOf(S))
            IN  (IsInt(E) /\ IsInt(S) /\ IntOf(S) > 0) =>
                  /\ Is(CellValue(sheet, i, "# Stacks (ceil)"), stacks)
                  /\ Is(CellValue(sheet, i, "# Double Chests"), IF IntOf(E) = 0 THEN 0 ELSE CeilDiv(stacks, 54))
                  /\ Is(CellValue(sheet, i, "Stacks after last double"), stacks % 54)
                  /\ Is(CellValue(sheet, i, "Units after last stack"), IntOf(E) % IntOf(S))

\* Total 130 at stack size 64: 3 stacks, 1 double chest, 3 stacks and 2 units over.
C8_Witness ==
    /\ pc = "generated"
    /\ \E i \in 1..Len(sheets.TOTALS_ALL.rows) :
          /\ Is(CellValue("TOTALS_ALL", i, "Total (units)"), 130)
          /\ Is(CellValue("TOTALS_ALL", i, "Stack Size"), 64)
          /\ Is(CellValue("TOTALS_ALL", i, "# Stacks (ceil)"), 3)
          /\ Is(CellValue("TOTALS_ALL", i, "# Double Chests"), 1)
          /\ Is(CellValue("TOTALS_ALL", i, "Stacks after last double"), 3)
          /\ Is(CellValue("TOTALS_ALL", i, "Units after last stack"), 2)

\* The cells a formula refers to.
RECURSIVE RefsOf(_)
RefsOf(f) ==
    CASE f.op \in {"NUM", "STR"} -> {}
      [] f.op = "REF" -> {f.args}
      [] OTHER -> UNION {RefsOf(f.args[k]) : k \in 1..Len(f.args)}

MaxOf(a, b) == IF a >= b THEN a ELSE b

\* C9: in every row of MISSING_ONLY, whatever integers the user has typed into
\* the Missing total, user units and user stacks cells and whatever the stack
\* size, Computed Total evaluates to max(0, Missing + units + stacks * size),
\* never below 0, and the derived columns of the row refer to the Computed
\* Total cell, none of them to the Missing total cell.
C9_ComputedTotalClamped ==
    pc = "generated" =>
        \A i \in 1..Len(sheets.MISSING_ONLY.rows) :
            LET cols == sheets.MISSING_ONLY.columns
                M == CellValue("MISSING_ONLY", i, "Total (units)")
                u == CellValue("MISSING_ONLY", i, "User units (editable)")
                s == CellValue("MISSING_ONLY", i, "User stacks (editable)")
                S == CellValue("MISSING_ONLY", i, "Stack Size")
                E == CellValue("MISSING_ONLY", i, "Computed Total (units)")
                Formula(col) == sheets.MISSING_ONLY.rows[i][HeaderGet(cols, col)]
                total == <<HeaderGet(cols, "Total (units)"), i + 1>>
                computed == <<HeaderGet(cols, "Computed Total (units)"), i + 1>>
            IN  /\ (IsInt(M) /\ IsInt(u) /\ IsInt(s) /\ IsInt(S)) =>
                      /\ Is(E, MaxOf(0, IntOf(M) + IntOf(u) + IntOf(s) * IntOf(S)))
                      /\ IntOf(E) >= 0
                /\ \A col \in {"# Stacks (ceil)", "# Double Chests",
                               "Stacks after last double", "Units after last stack"} :
                      total \notin RefsOf(Formula(col))
                /\ \A col \in {"# Stacks (ceil)", "# Double Chests", "Units after last stack"} :
                      computed \in RefsOf(Formula(col))

\* Missing 0 and -5 typed into the user units: Computed Total is 0.
C9_Witness ==
    /\ pc = "generated"
    /\ \E i \in 1..Len(sheets.MISSING_ONLY.rows) :
          /\ Is(CellValue("MISSING_ONLY", i, "Total (units)"), 0)
          /\ Is(CellValue("MISSING_ONLY", i, "User units (editable)"), -5)
          /\ Is(CellValue("MISSING_ONLY", i, "User stacks (editable)"), 0)
          /\ Is(CellValue("MISSING_ONLY", i, "Computed Total (units)"), 0)

====
